---- MODULE Spec2Model ----
(***************************************************************************)
(* Model of sync-d1.py: the OGD -> Cloudflare D1 company synchroniser.     *)
(*                                                                         *)
(* Python values are tagged records: None, bool, int, str, list, dict, the  *)
(* values json() can give (numbers are integers here).  A string is a      *)
(* sequence of one-character strings; a dict is its keys in insertion      *)
(* order and the value of each key, so that a key that is absent, a key    *)
(* present with the value None and a key with a string value are three     *)
(* different things, as they are for dict.get().                           *)
(***************************************************************************)
EXTENDS Integers, Sequences, FiniteSets, TLC

VARIABLES
    pc,            \* position in main(): connect, fetch, insert, stats, returned, crashed
    configured,    \* CLOUDFLARE_API_TOKEN, CLOUDFLARE_ACCOUNT_ID and D1_DATABASE_ID are all set
    total_synced,  \* main: total_synced
    offset,        \* main: offset
    companies,     \* main: companies, the value sync_companies_batch returned (a list or None)
    outcome,       \* how the run was decided: NONE, DONE (a check-mark message), ABORTED (a cross message)
    fetchLog,      \* the offsets passed to sync_companies_batch, in order
    returnedSum,   \* the sum of the integer counts insert_companies_batch has returned
    last,          \* what the latest loop iteration did (history)
    statsQueries,  \* number of final statistics queries sent through execute_d1_query
    writeFailed,   \* the upsert of some full page has failed (history)
    built,         \* the row phase: result of building the VALUES tuples of one page
    table,         \* the destination table companies, one element per stored row
    source,        \* the upsert phase: the source data, a sequence of company records
    run,           \* the upsert phase: 1 = first run of main, 2 = second run
    snapshot       \* the upsert phase: the table as the first run left it

vars == <<pc, configured, total_synced, offset, companies, outcome, fetchLog,
          returnedSum, last, statsQueries, writeFailed, built, table, source, run,
          snapshot>>

-----------------------------------------------------------------------------
(* Bounds of the model and constants of the program.                       *)

\* main: batch_size (500 in the source), scaled down.
BatchSize == 2
\* main: max_records (2,000,000 in the source), scaled down.
MaxRecords == 4
\* main: the extra loops the safety break allows.
SafetyExtraLoops == 100
\* insert_companies_batch: the length a CIN is cut to.
CinMaxLen == 50
\* insert_companies_batch: the length an escaped name is cut to.
NameMaxLen == 255
\* Longest varying part of a generated string.
MaxTail == 2
\* Number of records of the source data in the upsert phase.
MaxSource == 5

-----------------------------------------------------------------------------
(* Python values.                                                          *)

\* Absent is no value: it is what a dict constructor is given for a key the
\* dict does not have.
Absent == [k |-> "absent"]
None == [k |-> "None"]
PyStr(s) == [k |-> "str", v |-> s]
PyInt(n) == [k |-> "int", v |-> n]
PyBool(b) == [k |-> "bool", v |-> b]
PyList(l) == [k |-> "list", v |-> l]
\* The dict of the <<key, value>> items, in their order; no key twice.
PyDict(items) ==
    [k |-> "dict",
     keys |-> [i \in 1..Len(items) |-> items[i][1]],
     v |-> [key \in {items[i][1] : i \in 1..Len(items)} |->
               items[CHOOSE i \in 1..Len(items) : items[i][1] = key][2]]]

\* The dict of the items whose value is given.
Obj(items) == PyDict(SelectSeq(items, LAMBDA item : item[2].k # "absent"))

\* dict.get(key, default)
get(d, key, default) == IF key \in DOMAIN d.v THEN d.v[key] ELSE default

\* Python truthiness, as used by "if x" and "not x".
Truthy(x) ==
    CASE x.k = "None" -> FALSE
      [] x.k = "absent" -> FALSE
      [] x.k = "str" -> Len(x.v) > 0
      [] x.k = "int" -> x.v # 0
      [] x.k = "bool" -> x.v
      [] x.k = "list" -> Len(x.v) > 0
      [] x.k = "dict" -> Len(x.keys) > 0

\* The result of evaluating an expression: a value, or the exception raised.
Ok(value) == [exc |-> "none", val |-> value]
Raise(name) == [exc |-> name, val |-> None]

\* x.get(key, default): only a dict has the attribute get.
PyGet(x, key, default) ==
    IF x.exc # "none" THEN x
    ELSE IF x.val.k = "dict" THEN Ok(get(x.val, key, default))
    ELSE Raise("AttributeError")

\* x[0]: the first element of a list or a string; a dict of json() has no
\* key 0; None, a bool and an int are not subscriptable.
PyItem0(x) ==
    IF x.exc # "none" THEN x
    ELSE CASE x.val.k = "list" ->
                (IF Len(x.val.v) = 0 THEN Raise("IndexError") ELSE Ok(x.val.v[1]))
           [] x.val.k = "str" ->
                (IF Len(x.val.v) = 0 THEN Raise("IndexError") ELSE Ok(PyStr(<<x.val.v[1]>>)))
           [] x.val.k = "dict" -> Raise("KeyError")
           [] OTHER -> Raise("TypeError")

\* except (IndexError, KeyError, TypeError)
Caught(exc) == exc \in {"IndexError", "KeyError", "TypeError"}

\* len(x) where it is defined.
PyLen(x) ==
    CASE x.k \in {"str", "list"} -> Len(x.v)
      [] x.k = "dict" -> Len(x.keys)
      [] OTHER -> 0

Quote == "'"

\* str.replace("'", "''") on a sequence of characters: every character is
\* copied, a quote twice.  The string is split in halves to keep the
\* evaluation shallow.
RECURSIVE replace_quote(_)
replace_quote(s) ==
    IF s = <<>> THEN <<>>
    ELSE IF Len(s) = 1 THEN (IF s[1] = Quote THEN <<Quote, Quote>> ELSE s)
    ELSE LET half == Len(s) \div 2
         IN  replace_quote(SubSeq(s, 1, half)) \o replace_quote(SubSeq(s, half + 1, Len(s)))

\* s[:n]
Slice(s, n) == SubSeq(s, 1, IF Len(s) < n THEN Len(s) ELSE n)

\* company.get(key, default).replace("'", "''"): only a str has replace
\* (AttributeError on None, a number, a list, a dict).
EscapedField(v) ==
    IF v.k = "str" THEN [raised |-> FALSE, s |-> replace_quote(v.v)]
    ELSE [raised |-> TRUE, s |-> <<>>]

\* if len(cin) > 50: cin = cin[:50]
TruncateCin(cin) == IF Len(cin) > CinMaxLen THEN Slice(cin, CinMaxLen) ELSE cin

\* if len(name) > 255: name = name[:255]   (name is already escaped)
TruncateName(name) == IF Len(name) > NameMaxLen THEN Slice(name, NameMaxLen) ELSE name

CompanyKeys ==
    {"corporate_identification_number", "company_name", "company_status",
     "date_of_registration", "company_class", "registrar_of_companies",
     "email_id", "email", "registered_state", "state"}

\* str(n) of an int.
DigitChars == <<"0", "1", "2", "3", "4", "5", "6", "7", "8", "9">>
RECURSIVE Digits(_)
Digits(n) ==
    IF n < 0 THEN <<"-">> \o Digits(0 - n)
    ELSE IF n < 10 THEN <<DigitChars[n + 1]>>
    ELSE Digits(n \div 10) \o <<DigitChars[(n % 10) + 1]>>

DoubleQuote == "\""
Backslash == "\\"

RECURSIVE Join(_, _)
\* sep.join(parts)
Join(sep, parts) ==
    IF parts = <<>> THEN <<>>
    ELSE IF Len(parts) = 1 THEN parts[1]
    ELSE parts[1] \o sep \o Join(sep, Tail(parts))

\* repr(s) of a str of printable characters: in single quotes, or in double
\* quotes when s holds a single quote and no double quote; a backslash
\* doubled, the quote in use escaped.
ReprStr(s) ==
    LET single == \E i \in 1..Len(s) : s[i] = Quote
        double == \E i \in 1..Len(s) : s[i] = DoubleQuote
        q == IF single /\ ~double THEN DoubleQuote ELSE Quote
        piece(c) == IF c = Backslash THEN <<Backslash, Backslash>>
                    ELSE IF c = q THEN <<Backslash, c>>
                    ELSE <<c>>
    IN  <<q>> \o Join(<<>>, [i \in 1..Len(s) |-> piece(s[i])]) \o <<q>>

\* repr(v); a key of a dict is one piece of text with no quote or backslash
\* in it.
RECURSIVE Repr(_)
Repr(v) ==
    CASE v.k = "None" -> <<"N", "o", "n", "e">>
      [] v.k = "bool" -> (IF v.v THEN <<"T", "r", "u", "e">> ELSE <<"F", "a", "l", "s", "e">>)
      [] v.k = "int" -> Digits(v.v)
      [] v.k = "str" -> ReprStr(v.v)
      [] v.k = "list" ->
           <<"[">> \o Join(<<",", " ">>, [i \in 1..Len(v.v) |-> Repr(v.v[i])]) \o <<"]">>
      [] v.k = "dict" ->
           <<"{">> \o Join(<<",", " ">>,
                          [i \in 1..Len(v.keys) |->
                              ReprStr(<<v.keys[i]>>) \o <<":", " ">> \o Repr(v.v[v.keys[i]])])
                   \o <<"}">>

\* len(cin), cin[:50] and the '{cin}' of the tuple, on a cin that is truthy:
\* a str is cut and inlined; a list is cut and inlined as its repr; a dict is
\* inlined as its repr, and cannot be sliced; a number has no len.
CinText(cin) ==
    CASE cin.k = "str" -> Ok(TruncateCin(cin.v))
      [] cin.k = "list" -> Ok(Repr(PyList(TruncateCin(cin.v))))
      [] cin.k = "dict" ->
           (IF Len(cin.keys) > CinMaxLen THEN Raise("TypeError") ELSE Ok(Repr(cin)))
      [] OTHER -> Raise("TypeError")

\* The body of the for loop of insert_companies_batch for one company:
\* skipped (no CIN), raised (the company is no dict, a field is no str, the
\* CIN has no len), or the tuple appended to values.
BuildRow(company) ==
    IF company.k # "dict" THEN [kind |-> "raised"]
    ELSE
    LET cin == get(company, "corporate_identification_number", None)
        name == EscapedField(get(company, "company_name", PyStr(<<>>)))
        status == EscapedField(get(company, "company_status", PyStr(<<>>)))
        reg_date == EscapedField(get(company, "date_of_registration", PyStr(<<>>)))
        company_class == EscapedField(get(company, "company_class", PyStr(<<>>)))
        roc == EscapedField(get(company, "registrar_of_companies", PyStr(<<>>)))
        email == EscapedField(get(company, "email_id", get(company, "email", PyStr(<<>>))))
        state == EscapedField(get(company, "registered_state", get(company, "state", PyStr(<<>>))))
    IN  IF ~Truthy(cin) THEN [kind |-> "skipped"]
        ELSE IF name.raised \/ status.raised \/ reg_date.raised \/ company_class.raised
                \/ roc.raised \/ email.raised \/ state.raised
             THEN [kind |-> "raised"]
        ELSE IF CinText(cin).exc # "none" THEN [kind |-> "raised"]
        ELSE [kind |-> "row",
              row |-> [company_name |-> TruncateName(name.s),
                       cin |-> CinText(cin).val,
                       status |-> status.s,
                       registration_date |-> reg_date.s,
                       company_class |-> company_class.s,
                       roc |-> roc.s,
                       email |-> email.s,
                       state |-> state.s]]

\* The for loop of insert_companies_batch: the values list, or raised when a
\* company raises (nothing has been sent at that point).
RECURSIVE BuildValues(_)
BuildValues(cs) ==
    IF cs = <<>> THEN [raised |-> FALSE, values |-> <<>>]
    ELSE LET r == BuildRow(Head(cs))
             rest == BuildValues(Tail(cs))
         IN  IF r.kind = "raised" \/ rest.raised THEN [raised |-> TRUE, values |-> <<>>]
             ELSE IF r.kind = "skipped" THEN rest
             ELSE [raised |-> FALSE, values |-> <<r.row>> \o rest.values]

-----------------------------------------------------------------------------
(* The two remote services, as the values requests hands to the script.    *)

\* A dictionary of the D1 response: the top level, a statement's result, its
\* meta, a result row.  A key that is not given is absent.
D1Body(success, result) == Obj(<<<<"success", success>>, <<"result", result>>>>)
D1Statement(meta, results) == Obj(<<<<"meta", meta>>, <<"results", results>>>>)
D1Meta(rows_written) == Obj(<<<<"rows_written", rows_written>>>>)
D1Row(count, total, active) ==
    Obj(<<<<"count", count>>, <<"total", total>>, <<"active", active>>>>)

\* [{}], the default of result.get('result', [{}]) and of .get('results', [{}])
DefaultStatements == PyList(<<D1Statement(Absent, Absent)>>)
DefaultRows == PyList(<<D1Row(Absent, Absent, Absent)>>)
\* {}, the default of .get('meta', {})
DefaultMeta == D1Meta(Absent)

\* What the HTTP exchange of an upsert can give: None stands for a
\* RequestException (transport error, timeout, non-2xx status) and for the
\* body null.
RowsWrittenValues == 0..(BatchSize + 1)
UpsertExchanges ==
    {None,
     D1Body(Absent, Absent),
     D1Body(PyBool(FALSE), Absent),
     D1Body(Absent, PyList(<<>>)),
     D1Body(PyBool(TRUE), Absent),
     D1Body(PyBool(TRUE), PyList(<<>>)),
     D1Body(PyBool(TRUE), PyList(<<D1Statement(Absent, Absent)>>)),
     D1Body(PyBool(TRUE), PyList(<<D1Statement(DefaultMeta, Absent)>>)),
     D1Body(PyBool(TRUE), PyList(<<D1Statement(D1Meta(None), Absent)>>)),
     D1Body(PyBool(TRUE), PyList(<<None>>)),
     D1Body(PyBool(TRUE), PyList(<<D1Statement(D1Meta(PyStr(<<"1">>)), Absent)>>))}
    \cup {D1Body(PyBool(TRUE), PyList(<<D1Statement(D1Meta(PyInt(n)), Absent)>>)) :
            n \in RowsWrittenValues}

\* What the HTTP exchange of a SELECT (the connection check, the final
\* statistics) can give.
QueryExchanges ==
    {None,
     D1Body(Absent, Absent),
     D1Body(PyBool(FALSE), Absent),
     D1Body(PyBool(TRUE), Absent),
     D1Body(PyBool(TRUE), PyList(<<>>)),
     D1Body(PyBool(TRUE), PyList(<<None>>)),
     D1Body(PyBool(TRUE), PyList(<<D1Statement(Absent, PyList(<<>>))>>)),
     D1Body(PyBool(TRUE), PyList(<<D1Statement(Absent, PyList(<<D1Row(Absent, Absent, Absent)>>))>>)),
     D1Body(PyBool(TRUE), PyList(<<D1Statement(Absent, PyList(<<D1Row(PyInt(1), None, None)>>))>>)),
     D1Body(PyBool(TRUE), PyList(<<D1Statement(Absent, PyList(<<D1Row(PyInt(1), PyInt(1), Absent)>>))>>)),
     D1Body(PyBool(TRUE), PyList(<<D1Statement(Absent, PyList(<<D1Row(PyInt(1), PyInt(1), PyInt(1))>>))>>))}

\* execute_d1_query: None without the credentials (no request is made), else
\* response.json(), or None on a RequestException.
execute_d1_query(cfg, exchange) == IF ~cfg THEN None ELSE exchange

\* if result and result.get('success', False): taken, not taken (the else
\* branch), or raised (a truthy result that is no dict has no get).
SuccessTest(result) ==
    IF ~Truthy(result) THEN "else"
    ELSE LET success == PyGet(Ok(result), "success", PyBool(FALSE))
         IN  IF success.exc # "none" THEN "raised"
             ELSE IF Truthy(success.val) THEN "then"
             ELSE "else"

\* Mutant of InsertResult: a failed call is counted like a reply without
\* rows_written, as the whole batch.
InsertResultAssumesSuccess(result, nvalues) ==
    CASE SuccessTest(result) = "raised" -> [raised |-> TRUE, ret |-> None]
      [] SuccessTest(result) = "else" -> [raised |-> FALSE, ret |-> PyInt(nvalues)]
      [] OTHER ->
           LET meta == PyGet(PyItem0(PyGet(Ok(result), "result", DefaultStatements)),
                             "meta", DefaultMeta)
               rows_written == PyGet(meta, "rows_written", PyInt(nvalues))
           IN  [raised |-> rows_written.exc # "none", ret |-> rows_written.val]

\* The tail of insert_companies_batch from "if result and ...": the value
\* returned, or raised (nothing catches the exceptions of the chain of get
\* and [0]).
InsertResult(result, nvalues) ==
    CASE SuccessTest(result) = "raised" -> [raised |-> TRUE, ret |-> None]
      [] SuccessTest(result) = "else" -> [raised |-> FALSE, ret |-> PyInt(0)]
      [] OTHER ->
           LET meta == PyGet(PyItem0(PyGet(Ok(result), "result", DefaultStatements)),
                             "meta", DefaultMeta)
               rows_written == PyGet(meta, "rows_written", PyInt(nvalues))
           IN  [raised |-> rows_written.exc # "none", ret |-> rows_written.val]

\* insert_companies_batch(companies) up to its statement: nothing to insert
\* (no companies, or no company with a CIN), raised, or the values list.  The
\* for loop runs over the elements of a list; on any other truthy value it
\* raises: the characters of a str and the keys of a dict are strs, which
\* have no get, and a number is not iterable.
CollectValues(cs) ==
    IF ~Truthy(cs) THEN [kind |-> "nothing", values |-> <<>>]
    ELSE IF cs.k # "list" THEN [kind |-> "raised", values |-> <<>>]
    ELSE LET b == BuildValues(cs.v)
         IN  IF b.raised THEN [kind |-> "raised", values |-> <<>>]
             ELSE IF Len(b.values) = 0 THEN [kind |-> "nothing", values |-> <<>>]
             ELSE [kind |-> "values", values |-> b.values]

\* insert_companies_batch(companies) from its statement on, with the
\* exchange its one call of execute_d1_query meets.  sent: the upsert
\* statement was handed to execute_d1_query; failed: that call gave no result
\* or one without success.
SendValues(b, cfg, exchange) ==
    CASE b.kind = "nothing" ->
           [raised |-> FALSE, ret |-> PyInt(0), sent |-> FALSE, failed |-> FALSE, values |-> <<>>]
      [] b.kind = "raised" ->
           [raised |-> TRUE, ret |-> None, sent |-> FALSE, failed |-> FALSE, values |-> <<>>]
      [] OTHER ->
           LET result == execute_d1_query(cfg, exchange)
               r == InsertResult(result, Len(b.values))
           IN  [raised |-> r.raised, ret |-> r.ret, sent |-> TRUE,
                failed |-> SuccessTest(result) = "else",
                values |-> b.values]

insert_companies_batch(cs, cfg, exchange) == SendValues(CollectValues(cs), cfg, exchange)

\* What the GET of the source API can give: None stands for a
\* RequestException (transport error, timeout, non-2xx status), for a body
\* that is no JSON and for the body null; without OGD_API_KEY no GET is made
\* and the outcome is that of None.
OgdBody(records) == Obj(<<<<"records", records>>>>)

\* sync_companies_batch(offset, limit): data.get('records', []) as it is (None
\* when the body carries "records": null), or [] on any exception, that of
\* get on a body that is no dict included.
sync_companies_batch(exchange) ==
    IF exchange.k = "dict" THEN get(exchange, "records", PyList(<<>>))
    ELSE PyList(<<>>)

\* 'N/A', the default of .get('count', 'N/A'), .get('total', 'N/A') and
\* .get('active', 'N/A')
NotAvailable == PyStr(<<"N", "/", "A">>)

\* The connection check of main passes on any truthy result.
Connected(test_result) == Truthy(test_result)

\* The connection check of main, lines 171-181: failed; connected (the count
\* parsed, or not parsed with the exception caught); raised (AttributeError
\* from get on an entry that is no dict, which the except does not name).
ConnectionCheck(test_result) ==
    IF ~Connected(test_result) THEN "failed"
    ELSE LET count == PyGet(PyItem0(PyGet(PyItem0(PyGet(Ok(test_result), "result",
                                                        DefaultStatements)),
                                          "results", DefaultRows)),
                            "count", NotAvailable)
         IN  IF count.exc = "none" \/ Caught(count.exc) THEN "connected" ELSE "raised"

\* f"{v:,}": an int (a bool is one) is printed; a str raises ValueError; None,
\* a list and a dict raise TypeError.
FormatThousands(v) ==
    CASE v.k = "int" -> "ok"
      [] v.k = "bool" -> "ok"
      [] v.k = "str" -> "ValueError"
      [] OTHER -> "TypeError"

\* The final statistics block of main: printed, unparsed (IndexError,
\* KeyError or TypeError caught), unavailable, or raised (AttributeError from
\* get on a value that is no dict, ValueError from the ',' format of a str such
\* as the default 'N/A').
FinalStatistics(stats_result) ==
    CASE SuccessTest(stats_result) = "raised" -> "raised"
      [] SuccessTest(stats_result) = "else" -> "unavailable"
      [] OTHER ->
           LET stats == PyItem0(PyGet(PyItem0(PyGet(Ok(stats_result), "result",
                                                    DefaultStatements)),
                                      "results", DefaultRows))
               total == PyGet(stats, "total", NotAvailable)
               active == PyGet(stats, "active", NotAvailable)
           IN  IF stats.exc # "none"
               THEN (IF Caught(stats.exc) THEN "unparsed" ELSE "raised")
               ELSE IF total.exc # "none" THEN "raised"
               ELSE IF FormatThousands(total.val) = "ValueError" THEN "raised"
               ELSE IF FormatThousands(total.val) = "TypeError" THEN "unparsed"
               ELSE IF FormatThousands(active.val) = "ValueError" THEN "raised"
               ELSE IF FormatThousands(active.val) = "TypeError" THEN "unparsed"
               ELSE "printed"

-----------------------------------------------------------------------------
(* main(): the driver.                                                     *)

\* A company record with no key, and a record with one more key set.
BlankCompany == PyDict(<<>>)
With(company, key, value) ==
    [k |-> "dict",
     keys |-> IF key \in DOMAIN company.v THEN company.keys ELSE Append(company.keys, key),
     v |-> [name \in DOMAIN company.v \cup {key} |->
               IF name = key THEN value ELSE company.v[name]]]

\* The records the source serves in the driver phase: a complete one, one
\* without a CIN, one whose name is present but null.
GoodCompany ==
    With(With(BlankCompany, "corporate_identification_number", PyStr(<<"U", "1">>)),
         "company_name", PyStr(<<"o", Quote, "k">>))
NoCinCompany == With(BlankCompany, "company_name", PyStr(<<"n">>))
NullNameCompany ==
    With(With(BlankCompany, "corporate_identification_number", PyStr(<<"U", "2">>)),
         "company_name", None)
SampleCompanies == {GoodCompany, NoCinCompany, NullNameCompany}

RECURSIVE SeqsUpTo(_, _)
SeqsUpTo(S, n) ==
    IF n = 0 THEN {<<>>}
    ELSE LET shorter == SeqsUpTo(S, n - 1)
         IN  shorter \cup {Append(q, x) : q \in {r \in shorter : Len(r) = n - 1}, x \in S}

\* The source serves at most limit records per request.  The pages: records
\* of one kind, and complete records followed by one record of any kind.
DriverPages ==
    {p \in SeqsUpTo(SampleCompanies, BatchSize) :
        \/ \A i \in 1..Len(p) : p[i] = p[1]
        \/ \A i \in 1..(Len(p) - 1) : p[i] = GoodCompany}
OgdExchanges ==
    {None, OgdBody(Absent), OgdBody(None), OgdBody(PyList(<<None>>))}
        \cup {OgdBody(PyList(p)) : p \in DriverPages}

NoIteration ==
    [active |-> FALSE, offset |-> 0, before |-> 0, len |-> 0, fetchFailed |-> FALSE,
     fetchedNone |-> FALSE, fetchedEmpty |-> FALSE, sent |-> FALSE, failed |-> FALSE, raised |-> FALSE, ret |-> None]

\* while total_synced < max_records
WhileCondition(total) == total < MaxRecords

\* batch_num = offset // batch_size + 1
BatchNum(off) == (off \div BatchSize) + 1

\* if companies is None: ... break
NonePageBreak(page) == page.k = "None"

\* if not companies: ... break
EmptyPageBreak(page) == ~Truthy(page)

\* Mutant of EmptyPageOutcome: the first batch is not told apart.
EmptyPageAlwaysDone(off) == "DONE"

\* The message of the empty-page break: a cross on the first batch, a check
\* mark after it.
EmptyPageOutcome(off) == IF off = 0 THEN "ABORTED" ELSE "DONE"

\* total_synced += inserted: None has left the loop before; an int is added,
\* a bool as 1 or 0; any other value raises TypeError.
Addable(inserted) == inserted.k \in {"int", "bool"}
Number(inserted) == IF inserted.k = "bool" THEN (IF inserted.v THEN 1 ELSE 0) ELSE inserted.v

\* Mutant of AddInserted: the count of the batch is dropped.
AddInsertedDropped(total, inserted) == total

\* total_synced += inserted
AddInserted(total, inserted) == total + inserted

\* if len(companies) < batch_size: break
ShortPageBreak(len) == len < BatchSize

\* offset += batch_size
NextOffset(off) == off + BatchSize

\* Mutant of SafetyBreak: one more loop is allowed.
SafetyBreakOneLate(batch_num) ==
    batch_num * BatchSize > MaxRecords + (SafetyExtraLoops + 1) * BatchSize

\* batch_num > (max_records / batch_size) + 100, a comparison of rationals
SafetyBreak(batch_num) ==
    batch_num * BatchSize > MaxRecords + SafetyExtraLoops * BatchSize

\* total_synced >= max_records
TargetReached(total) == total >= MaxRecords

\* Mutant of AfterAdvance: the target is tested before the safety break.
AfterAdvanceTargetFirst(batch_num, total) ==
    IF total >= MaxRecords THEN "DONE"
    ELSE IF batch_num * BatchSize > MaxRecords + SafetyExtraLoops * BatchSize THEN "ABORTED"
    ELSE "continue"

\* The two breaks after offset += batch_size, in the order main makes them.
AfterAdvance(batch_num, total) ==
    IF SafetyBreak(batch_num) THEN "ABORTED"
    ELSE IF TargetReached(total) THEN "DONE"
    ELSE "continue"

\* Mutant of ConnectFailedPc: the failed check falls through to the
\* statistics.
ConnectFailedToStats == "stats"

\* Where main goes when the connection check fails: return, with no
\* statistics.
ConnectFailedPc == "returned"

DriverInit ==
    /\ pc = "connect"
    /\ configured \in BOOLEAN
    /\ total_synced = 0
    /\ offset = 0
    /\ companies = Absent
    /\ outcome = "NONE"
    /\ fetchLog = <<>>
    /\ returnedSum = 0
    /\ last = NoIteration
    /\ statsQueries = 0
    /\ writeFailed = FALSE
    /\ built = [raised |-> FALSE, values |-> <<>>]
    /\ table = <<>>
    /\ source = <<>>
    /\ run = 0
    /\ snapshot = <<>>

OtherPhases == UNCHANGED <<built, table, source, run, snapshot>>

\* main, lines 169-181 and the first test of the while condition, on the
\* reply the connection check gets.
ConnectStep(exchange) ==
    /\ pc = "connect"
    /\ LET test_result == execute_d1_query(configured, exchange)
           check == ConnectionCheck(test_result)
       IN  IF check = "raised"
           THEN \* the exception leaves main
                pc' = "crashed" /\ outcome' = outcome
           ELSE IF check = "connected"
           THEN IF WhileCondition(total_synced)
                THEN pc' = "fetch" /\ outcome' = outcome
                ELSE pc' = "stats" /\ outcome' = "DONE"
           ELSE pc' = ConnectFailedPc /\ outcome' = "ABORTED"
    /\ UNCHANGED <<configured, total_synced, offset, companies, fetchLog,
                   returnedSum, last, statsQueries, writeFailed>>

\* main, lines 194-210: fetch the page at offset, on the reply the source
\* gives; a None page and an empty page break.
FetchStep(exchange) ==
    /\ pc = "fetch"
    /\ LET page == sync_companies_batch(exchange)
           it == [NoIteration EXCEPT !.active = TRUE, !.offset = offset,
                                     !.before = total_synced]
       IN  /\ companies' = page
           /\ fetchLog' = Append(fetchLog, offset)
           /\ IF NonePageBreak(page)
              THEN /\ pc' = "stats"
                   /\ outcome' = "ABORTED"
                   /\ last' = [it EXCEPT !.fetchedNone = TRUE]
              ELSE IF EmptyPageBreak(page)
              THEN /\ pc' = "stats"
                   /\ outcome' = EmptyPageOutcome(offset)
                   /\ last' = [it EXCEPT !.fetchedEmpty = TRUE,
                                         !.fetchFailed = (exchange.k = "None")]
              ELSE /\ pc' = "insert"
                   /\ outcome' = outcome
                   /\ last' = NoIteration
    /\ UNCHANGED <<configured, total_synced, offset, returnedSum, statsQueries,
                   writeFailed>>

\* main, lines 212-245: insert the page, on the reply the upsert gets; add
\* the count, decide how to go on.  len(companies) of line 213 raises on a
\* number, before insert_companies_batch is called.  b: what
\* insert_companies_batch collects from the page.
InsertStep(b, exchange) ==
    /\ pc = "insert"
    /\ LET nolen == companies.k \notin {"str", "list", "dict"}
           r == SendValues(b, configured, exchange)
           raised == nolen \/ r.raised \/ (r.ret.k # "None" /\ ~Addable(r.ret))
           batch_num == BatchNum(offset)
           it == [NoIteration EXCEPT !.active = TRUE, !.offset = offset,
                                     !.before = total_synced,
                                     !.len = PyLen(companies),
                                     !.sent = (~nolen /\ r.sent),
                                     !.failed = (~nolen /\ r.failed),
                                     !.raised = raised, !.ret = r.ret]
       IN  /\ last' = it
           /\ writeFailed' = (writeFailed \/ (it.failed /\ PyLen(companies) = BatchSize))
           /\ IF raised
              THEN \* the exception leaves main
                   /\ pc' = "crashed"
                   /\ UNCHANGED <<total_synced, offset, outcome, returnedSum>>
              ELSE IF r.ret.k = "None"
              THEN \* if inserted is None: ... break
                   /\ pc' = "stats"
                   /\ outcome' = "ABORTED"
                   /\ UNCHANGED <<total_synced, offset, returnedSum>>
              ELSE /\ total_synced' = AddInserted(total_synced, Number(r.ret))
                   /\ returnedSum' = returnedSum + Number(r.ret)
                   /\ IF ShortPageBreak(PyLen(companies))
                      THEN pc' = "stats" /\ outcome' = "DONE" /\ offset' = offset
                      ELSE /\ offset' = NextOffset(offset)
                           /\ LET d == AfterAdvance(batch_num, total_synced')
                              IN  IF d = "continue"
                                  THEN IF WhileCondition(total_synced')
                                       THEN pc' = "fetch" /\ outcome' = outcome
                                       ELSE pc' = "stats" /\ outcome' = "DONE"
                                  ELSE pc' = "stats" /\ outcome' = d
    /\ UNCHANGED <<configured, companies, fetchLog, statsQueries>>

\* main, lines 247-271: the final statistics, on the reply the query gets.
StatsStep(exchange) ==
    /\ pc = "stats"
    /\ LET stats_result == execute_d1_query(configured, exchange)
       IN  pc' = IF FinalStatistics(stats_result) = "raised" THEN "crashed" ELSE "returned"
    /\ statsQueries' = statsQueries + 1
    /\ UNCHANGED <<configured, total_synced, offset, companies, outcome, fetchLog,
                   returnedSum, last, writeFailed>>

\* The steps of main against a source and a store that may reply anything.
ConnectCheck == (\E exchange \in QueryExchanges : ConnectStep(exchange)) /\ OtherPhases

Fetch == (\E exchange \in OgdExchanges : FetchStep(exchange)) /\ OtherPhases

Insert ==
    LET b == CollectValues(companies)
    IN  (\E exchange \in UpsertExchanges : InsertStep(b, exchange)) /\ OtherPhases

FinalStats == (\E exchange \in QueryExchanges : StatsStep(exchange)) /\ OtherPhases

Next == ConnectCheck \/ Fetch \/ Insert \/ FinalStats

Spec == DriverInit /\ [][Next]_vars

-----------------------------------------------------------------------------
(* Properties of the driver, checked under Spec.                           *)

\* The latest iteration inserted a page of len records and got a count back.
Counted == last.active /\ last.len > 0 /\ ~last.raised /\ last.ret.k = "int"

\* No fetch has been issued after the latest iteration's.
NoFurtherFetch == Len(fetchLog) = (last.offset \div BatchSize) + 1

\* The latest iteration's batch number is past the safety bound.
PastSafetyBound ==
    ((last.offset \div BatchSize) + 1) * BatchSize > MaxRecords + SafetyExtraLoops * BatchSize

\* C1: after a non-empty page shorter than the page size, the page has been
\* written, its count added to the total, the run is DONE and no further
\* fetch is issued.
C1_ShortPageEndsDone ==
    (last.active /\ last.len > 0 /\ last.len < BatchSize)
        => /\ ~last.raised
           /\ last.ret.k = "int"
           /\ total_synced = last.before + last.ret.v
           /\ outcome = "DONE"
           /\ pc \in {"stats", "returned", "crashed"}
           /\ NoFurtherFetch

\* C2 as stated: a failed upsert of a full page returns 0, leaves the total
\* alone, and the driver goes on to fetch at offset + page size.
C2_FailedWriteAlwaysContinues ==
    (last.active /\ last.len = BatchSize /\ last.sent /\ last.failed)
        => /\ last.ret = PyInt(0)
           /\ total_synced = last.before
           /\ pc = "fetch"
           /\ offset = last.offset + BatchSize

\* C2 as amended: a failed upsert of a full page returns 0 and leaves the
\* total alone; the driver goes on to fetch at offset + page size unless that
\* iteration's batch number is past the safety bound, in which case the run
\* is ABORTED.
C2_FailedWriteContinuesUnlessSafety ==
    (last.active /\ last.len = BatchSize /\ last.sent /\ last.failed)
        => /\ last.ret = PyInt(0)
           /\ total_synced = last.before
           /\ offset = last.offset + BatchSize
           /\ IF PastSafetyBound
              THEN outcome = "ABORTED" /\ pc \in {"stats", "returned", "crashed"}
              ELSE outcome = "NONE" /\ pc = "fetch"

\* C2 witness: a run in which the upsert of a full page failed has ended DONE.
C2_Witness == writeFailed /\ outcome = "DONE" /\ pc = "returned" /\ total_synced > 0

\* C3: no exception leaves a loop iteration: a run that has fetched a page
\* never ends by a raise with neither DONE nor ABORTED decided.
C3_NeverCrashes == ~(pc = "crashed" /\ outcome = "NONE" /\ Len(fetchLog) > 0)

\* C4 as stated: a run that has returned has attempted the final statistics
\* query.
C4_EveryReturnAfterStats == (pc = "returned") => statsQueries = 1

\* C4 as amended: a run that fails the connection check (missing
\* configuration included) returns ABORTED with no statistics query; every
\* other run that returns has left the loop DONE or ABORTED and has sent
\* exactly one statistics query; the statistics step never changes the
\* outcome or the total.
C4_StatsAfterLoopOnly ==
    /\ [](pc = "returned" =>
            IF fetchLog = <<>>
            THEN outcome = "ABORTED" /\ statsQueries = 0
            ELSE outcome \in {"DONE", "ABORTED"} /\ statsQueries = 1)
    /\ [][pc = "stats" =>
            (outcome' = outcome /\ total_synced' = total_synced
             /\ statsQueries' = statsQueries + 1)]_vars

\* C4 witness: a run that ended ABORTED on an empty first page has returned
\* after its statistics query.
C4_Witness ==
    /\ pc = "returned" /\ outcome = "ABORTED" /\ statsQueries = 1
    /\ last.active /\ last.fetchedEmpty /\ last.offset = 0

\* C5 as stated: when the total reaches the target after a full page, the run
\* is DONE and no further fetch is issued.
C5_TargetAlwaysDone ==
    (Counted /\ last.len = BatchSize /\ total_synced >= MaxRecords)
        => outcome = "DONE" /\ pc # "fetch" /\ NoFurtherFetch

\* C5 as amended: when the total reaches the target after a full page, no
\* further fetch is issued, and the run is DONE unless that iteration's batch
\* number is past the safety bound, which main tests first: then it is
\* ABORTED.
C5_TargetDoneUnlessSafety ==
    (Counted /\ last.len = BatchSize /\ total_synced >= MaxRecords)
        => /\ pc \in {"stats", "returned", "crashed"}
           /\ NoFurtherFetch
           /\ outcome = IF PastSafetyBound THEN "ABORTED" ELSE "DONE"

\* C5 witness: the target was reached by a full page after the first one.
C5_Witness ==
    /\ Counted /\ last.len = BatchSize /\ total_synced >= MaxRecords
    /\ last.offset > 0 /\ outcome = "DONE"

\* Steps of main taken so far, counted from the fetches.
Progress ==
    CASE pc = "connect" -> 0
      [] pc = "fetch" -> 2 * Len(fetchLog) + 1
      [] pc = "insert" -> 2 * Len(fetchLog)
      [] pc = "stats" -> 2 * Len(fetchLog) + 2
      [] OTHER -> 2 * Len(fetchLog) + 3

\* C6: a run issues at most max_records / batch_size + 101 fetches, and the
\* run terminates under every behaviour of the source and the store: every
\* step of main makes progress, and the progress is bounded through the
\* fetches.
C6_LoopTerminates ==
    /\ [](Len(fetchLog) * BatchSize <= MaxRecords + (SafetyExtraLoops + 1) * BatchSize)
    /\ [](Progress * BatchSize <= 2 * (MaxRecords + (SafetyExtraLoops + 1) * BatchSize)
                                    + 3 * BatchSize)
    /\ [][Progress' > Progress]_vars

\* C6 witness: full pages at every offset and nothing counted, up to the
\* safety break.
C6_Witness ==
    /\ (Len(fetchLog) + 1) * BatchSize > MaxRecords + (SafetyExtraLoops + 1) * BatchSize
    /\ total_synced = 0 /\ outcome = "ABORTED"

\* C7: after an empty page (the empty-page break of main, which a None page
\* does not reach) no upsert is sent and the total is unchanged; the run is
\* ABORTED at offset 0 and DONE at any later offset, a failed fetch included;
\* no further fetch is issued.
C7_EmptyPageStops ==
    (last.active /\ last.fetchedEmpty)
        => /\ ~last.sent
           /\ total_synced = last.before
           /\ pc \in {"stats", "returned", "crashed"}
           /\ NoFurtherFetch
           /\ outcome = IF last.offset = 0 THEN "ABORTED" ELSE "DONE"

\* C7 witness: a fetch that failed after the first page ended the run DONE.
C7_Witness ==
    /\ last.active /\ last.fetchedEmpty /\ last.fetchFailed
    /\ last.offset > 0 /\ outcome = "DONE"

\* C10: the k-th fetch is at offset k * batch_size; the total is the sum of
\* the counts returned so far; a full page for which n was returned adds
\* exactly n, and the next fetch, if any, is at its offset + batch_size.
C10_OffsetsAndTotal ==
    /\ \A k \in 1..Len(fetchLog) : fetchLog[k] = (k - 1) * BatchSize
    /\ total_synced = returnedSum
    /\ (Counted /\ last.len = BatchSize) =>
          /\ total_synced = last.before + last.ret.v
          /\ (pc = "fetch" => offset = last.offset + BatchSize)

\* C10 witness: the third fetch is due after full pages that counted rows.
C10_Witness ==
    /\ pc = "fetch" /\ Len(fetchLog) = 2 /\ Counted /\ last.len = BatchSize
    /\ last.ret.v > 0 /\ last.before > 0

-----------------------------------------------------------------------------
(* The row phase: insert_companies_batch on single records whose fields    *)
(* carry quotes and reach the length caps.                                 *)

Pad(n) == [i \in 1..n |-> "a"]

\* Strings: a run of a's up to just below a cap, then a short tail of a's and
\* quotes.
PadLengths == {0, CinMaxLen - 1, NameMaxLen - 1}
Tails == SeqsUpTo({"a", Quote}, MaxTail)
TestStrings == {Pad(n) \o t : n \in PadLengths, t \in Tails}

RowCompanies ==
    {With(With(BlankCompany, "corporate_identification_number", PyStr(<<"U", "1">>)),
          key, PyStr(str)) : key \in CompanyKeys, str \in TestStrings}

\* The reply of a store that ran the statement.
AcceptedExchange == D1Body(PyBool(TRUE), PyList(<<D1Statement(DefaultMeta, Absent)>>))

RowInit ==
    /\ pc = "build"
    /\ configured = TRUE
    /\ total_synced = 0
    /\ offset = 0
    /\ companies \in {PyList(<<c>>) : c \in RowCompanies}
    /\ outcome = "NONE"
    /\ fetchLog = <<>>
    /\ returnedSum = 0
    /\ last = NoIteration
    /\ statsQueries = 0
    /\ writeFailed = FALSE
    /\ built = [raised |-> FALSE, values |-> <<>>]
    /\ table = <<>>
    /\ source = <<>>
    /\ run = 0
    /\ snapshot = <<>>

\* insert_companies_batch on the page: the tuples it puts into the statement.
BuildStatement ==
    /\ pc = "build"
    /\ LET r == insert_companies_batch(companies, configured, AcceptedExchange)
       IN  built' = [raised |-> r.raised, values |-> r.values]
    /\ pc' = "built"
    /\ UNCHANGED <<configured, total_synced, offset, companies, outcome, fetchLog,
                   returnedSum, last, statsQueries, writeFailed, table, source, run,
                   snapshot>>

NextRow == BuildStatement

SpecRow == RowInit /\ [][NextRow]_vars

\* The number of consecutive quotes of s that end at position i.
RECURSIVE QuotesEndingAt(_, _)
QuotesEndingAt(s, i) ==
    IF i = 0 \/ s[i] # Quote THEN 0 ELSE 1 + QuotesEndingAt(s, i - 1)

\* The text between the quotes of a literal closes the literal nowhere: every
\* quote in it is one of a pair, so every run of quotes has an even length.
LiteralClosed(s) ==
    \A i \in 1..Len(s) :
        (s[i] = Quote /\ (i = Len(s) \/ s[i + 1] # Quote)) => QuotesEndingAt(s, i) % 2 = 0

\* The value the store reads from the text of a closed literal: of every pair
\* of quotes one quote.
RECURSIVE SqlDecodeRange(_, _, _)
SqlDecodeRange(s, lo, hi) ==
    IF lo > hi THEN <<>>
    ELSE IF lo = hi
         THEN (IF s[lo] # Quote \/ QuotesEndingAt(s, lo) % 2 = 0 THEN <<s[lo]>> ELSE <<>>)
    ELSE LET mid == (lo + hi) \div 2
         IN  SqlDecodeRange(s, lo, mid) \o SqlDecodeRange(s, mid + 1, hi)

SqlDecode(s) == SqlDecodeRange(s, 1, Len(s))

IsPrefix(p, s) == Len(p) <= Len(s) /\ SubSeq(s, 1, Len(p)) = p

\* The value of the source record a column of the row is made from.
SourceValue(company, column) ==
    CASE column = "company_name" -> get(company, "company_name", PyStr(<<>>)).v
      [] column = "cin" -> get(company, "corporate_identification_number", PyStr(<<>>)).v
      [] column = "status" -> get(company, "company_status", PyStr(<<>>)).v
      [] column = "registration_date" -> get(company, "date_of_registration", PyStr(<<>>)).v
      [] column = "company_class" -> get(company, "company_class", PyStr(<<>>)).v
      [] column = "roc" -> get(company, "registrar_of_companies", PyStr(<<>>)).v
      [] column = "email" -> get(company, "email_id", get(company, "email", PyStr(<<>>))).v
      [] column = "state" -> get(company, "registered_state", get(company, "state", PyStr(<<>>))).v

Columns ==
    {"company_name", "cin", "status", "registration_date", "company_class", "roc",
     "email", "state"}

\* C8: every column of the tuple written for a record is a closed literal
\* (each quote doubled, also after the length cap), and decoding it gives
\* back the source value, or a prefix of it when the cap cut it.
C8_QuotesDoubled ==
    (pc = "built" /\ ~built.raised /\ Len(built.values) = 1)
        => \A column \in Columns :
             LET text == built.values[1][column]
                 original == SourceValue(companies.v[1], column)
             IN  /\ LiteralClosed(text)
                 /\ IsPrefix(SqlDecode(text), original)
                 /\ (Len(original) <= CinMaxLen => SqlDecode(text) = original)

-----------------------------------------------------------------------------------------------------------------------------------------------------
(* The upsert phase: main run twice over the same source data, against a   *)
(* store that runs every statement it is sent.                             *)

\* Mutant of D1Upsert: a plain INSERT, which keeps the row of the same cin.
D1InsertOnly(rows, values) == rows \o values

\* INSERT OR REPLACE INTO companies (...) VALUES tuple, tuple, ...: tuple by
\* tuple, the rows of the same cin are deleted and the tuple is stored.
RECURSIVE D1Upsert(_, _)
D1Upsert(rows, values) ==
    IF values = <<>> THEN rows
    ELSE LET tuple == Head(values)
             kept == SelectSeq(rows, LAMBDA r : r.cin # tuple.cin)
         IN  D1Upsert(Append(kept, tuple), Tail(values))

\* The records the source serves at offset with limit.
OgdPage(data, off, limit) ==
    SubSeq(data, off + 1, IF off + limit < Len(data) THEN off + limit ELSE Len(data))

\* The store's reply to SELECT COUNT(*) as count FROM companies.
CountReply(rows) ==
    D1Body(PyBool(TRUE),
           PyList(<<D1Statement(Absent, PyList(<<D1Row(PyInt(Len(rows)), Absent, Absent)>>))>>))

\* The store's reply to the statistics query: the rows, and those of them
\* whose status is 'Active'.
StatsReply(rows) ==
    LET active == {i \in 1..Len(rows) : rows[i].status = <<"A", "c", "t", "i", "v", "e">>}
    IN  D1Body(PyBool(TRUE),
               PyList(<<D1Statement(Absent,
                                    PyList(<<D1Row(Absent, PyInt(Len(rows)),
                                                   PyInt(Cardinality(active)))>>))>>))

\* Source records: one identifier under two names (one with a quote), and two
\* identifiers longer than the cap that differ only after it.
Company(cin, name) ==
    With(With(BlankCompany, "corporate_identification_number", PyStr(cin)),
         "company_name", PyStr(name))
UpsertCompanies ==
    {Company(<<"U", "1">>, <<"n">>), Company(<<"U", "1">>, <<"o", Quote, "k">>),
     Company(Pad(CinMaxLen) \o <<"x">>, <<"n">>), Company(Pad(CinMaxLen) \o <<"y">>, <<"n">>)}

UpsertInit ==
    /\ pc = "connect"
    /\ configured = TRUE
    /\ total_synced = 0
    /\ offset = 0
    /\ companies = Absent
    /\ outcome = "NONE"
    /\ fetchLog = <<>>
    /\ returnedSum = 0
    /\ last = NoIteration
    /\ statsQueries = 0
    /\ writeFailed = FALSE
    /\ built = [raised |-> FALSE, values |-> <<>>]
    /\ table = <<>>
    /\ source \in SeqsUpTo(UpsertCompanies, MaxSource)
    /\ run = 1
    /\ snapshot = <<>>

\* The steps of main against the source data and the table.
SyncConnect ==
    /\ ConnectStep(CountReply(table))
    /\ UNCHANGED <<built, table, source, run, snapshot>>

SyncFetch ==
    /\ FetchStep(OgdBody(PyList(OgdPage(source, offset, BatchSize))))
    /\ UNCHANGED <<built, table, source, run, snapshot>>

\* The statement insert_companies_batch sends is run by the store.
SyncInsert ==
    LET b == CollectValues(companies)
        r == SendValues(b, configured, AcceptedExchange)
    IN  /\ InsertStep(b, AcceptedExchange)
        /\ table' = IF r.sent THEN D1Upsert(table, r.values) ELSE table
        /\ UNCHANGED <<built, source, run, snapshot>>

SyncStats ==
    /\ StatsStep(StatsReply(table))
    /\ UNCHANGED <<built, table, source, run, snapshot>>

\* The script is run again once the first run has returned: main starts over
\* with total_synced = 0 and offset = 0; the table stays, and so do the
\* records of what has been fetched and counted.
Rerun ==
    /\ pc = "returned"
    /\ run = 1
    /\ run' = 2
    /\ snapshot' = table
    /\ pc' = "connect"
    /\ total_synced' = 0
    /\ offset' = 0
    /\ companies' = Absent
    /\ outcome' = "NONE"
    /\ last' = NoIteration
    /\ UNCHANGED <<configured, fetchLog, returnedSum, statsQueries, writeFailed, built,
                   table, source>>

NextUpsert == SyncConnect \/ SyncFetch \/ SyncInsert \/ SyncStats \/ Rerun

SpecUpsert == UpsertInit /\ [][NextUpsert]_vars

Range(f) == {f[i] : i \in DOMAIN f}

\* The identifier of a source record, and the records that have one.
CinOf(company) == get(company, "corporate_identification_number", PyStr(<<>>)).v
Identified == {c \in Range(source) : Len(CinOf(c)) > 0}

\* The records of the pages that have been fetched: once the first run is
\* over, the records of the pages it wrote.
Written ==
    {c \in Identified : \E o \in Range(fetchLog) : c \in Range(OgdPage(source, o, BatchSize))}

\* The key a source identifier is stored under: its first 50 characters.
KeyOf(cin) == SubSeq(cin, 1, IF Len(cin) < 50 THEN Len(cin) ELSE 50)

\* The rows of the table a source record is found in.
RowsOf(company) == {i \in 1..Len(table) : table[i].cin = KeyOf(CinOf(company))}

\* No row is duplicated; a row is the tuple of one source record, whole; once
\* the first run is over every identifier of the pages it wrote has exactly
\* one row; when the second run has returned the table holds the rows the
\* first run left.
UpsertIdempotent ==
    /\ \A i, j \in 1..Len(table) : table[i].cin = table[j].cin => i = j
    /\ \A i \in 1..Len(table) :
          \E c \in Identified : BuildRow(c).kind = "row" /\ table[i] = BuildRow(c).row
    /\ run = 2 => \A c \in Written : Cardinality(RowsOf(c)) = 1
    /\ (run = 2 /\ pc = "returned")
          => (Range(table) = Range(snapshot) /\ Len(table) = Len(snapshot))

\* C9 as stated: the upsert is idempotent, and two source records with
\* different identifiers are never in the same row.
C9_OneRowPerIdentifier ==
    /\ UpsertIdempotent
    /\ run = 2 => \A c1, c2 \in Written :
                     CinOf(c1) # CinOf(c2) => RowsOf(c1) \cap RowsOf(c2) = {}

\* C9 as amended: the upsert is idempotent, and two source records whose
\* identifiers differ within their first 50 characters are never in the same
\* row; identifiers that agree on their first 50 characters share the one row
\* of that key.
C9_OneRowPerKey ==
    /\ UpsertIdempotent
    /\ run = 2 => \A c1, c2 \in Written :
                     IF KeyOf(CinOf(c1)) # KeyOf(CinOf(c2))
                     THEN RowsOf(c1) \cap RowsOf(c2) = {}
                     ELSE RowsOf(c1) = RowsOf(c2)

\* C9 witness: the second run has returned after reaching the record cap, as
\* the first did, over source data in which an identifier was written twice
\* with different names.
C9_Witness ==
    /\ pc = "returned" /\ run = 2 /\ Len(source) = MaxSource
    /\ total_synced >= MaxRecords /\ Len(table) = 2
    /\ \E c1, c2 \in Written : c1 # c2 /\ CinOf(c1) = CinOf(c2)

====
